---- MODULE Spec2Model ----
(***************************************************************************)
(* Booking lifecycle, payment accounting and RSVP capacity control of the  *)
(* Festivo backend, modelled from the controllers and the Mongoose schemas.*)
(*                                                                         *)
(* A request handler runs between two awaits without interruption, so a    *)
(* handler is one action per stretch: the load-and-guard stretch and the   *)
(* write stretch (save, post-save hook, notification).  Spec runs the      *)
(* handlers one request at a time; SpecConc lets two requests interleave   *)
(* at the awaits.                                                          *)
(***************************************************************************)
EXTENDS Integers, Sequences, FiniteSets, Bags, TLC

\* ---------------------------------------------------------------- bounds
MaxRequests == 4
MaxPrice == 2
MaxGuests == 1
\* createRSVP requests followed when they interleave
MaxUpserts == 2
\* update, delete, moderate and helpful-vote requests followed
MaxReviewOps == 3
\* reviews stored when the rating recount is examined on its own
MaxReviews == 2

\* ------------------------------------------------------------ fixed data
Users == {"o", "v", "x"}
\* the users who send RSVP requests
Attendees == {"v", "x"}
Procs == {1, 2}

\* Events and services are created by other controllers; the booking
\* handlers only read them.  "e0" and "s0" are ids with no document.
\* maxAttendees is optional; Unset stands for an event without one.
\* The organizer of "e2" is a user who sends no request here.
Unset == 0
EventDb ==
  [e1 |-> [organizer |-> "o", maxAttendees |-> 2],
   e2 |-> [organizer |-> "w", maxAttendees |-> Unset]]
EventIds == {"e1", "e2", "e0"}

ServiceDb ==
  [s1 |-> [provider |-> "v", availability |-> "available"],
   s3 |-> [provider |-> "v", availability |-> "not_taking_orders"]]
ServiceIds == {"s1", "s3", "s0"}

Prices == 0..MaxPrice
Amounts == -1..MaxPrice
Reasons == {"r1"}

None == "none"
\* A Date path that has not been set.
NoTime == -1
\* guestsCount absent from a request body.
NoGuests == -1

BookingStatuses ==
  {"pending", "confirmed", "in_progress", "completed", "cancelled", "refunded"}
PaymentStatuses == {"unpaid", "partial", "paid", "refunded"}

VARIABLES
  bookings,       \* the Booking collection, in insertion order; _id = index
  svc,            \* Service documents: totalBookings, completedBookings
  notifications,  \* the Notification collection, as a bag of documents
  pc,             \* per request slot: where its handler stands
  req,            \* per request slot: the handler's local variables
  ev,             \* the response a handler has just produced, until it is sent
  now,            \* the clock: one tick per request that passes its guards
  ledger,         \* history: per booking, the sum of the amounts of the
                  \* payment calls whose save succeeded
  rsvps,          \* the RSVP collection, in insertion order; _id = index
  attendance,     \* Event documents: currentAttendees, rsvpCount
  reviews,        \* the Review collection, in insertion order
  ratings,        \* ratingAverage and totalRatings of services and vendors
  xp,             \* User documents: xpPoints
  reviewOps       \* update, delete, moderate and helpful-vote requests so far

bookingVars == <<bookings, svc, pc, req, ledger>>
rsvpVars == <<rsvps, attendance>>
reviewVars == <<reviews, ratings, xp, reviewOps>>
vars ==
  <<bookings, svc, notifications, pc, req, ev, now, ledger, rsvps, attendance,
    reviews, ratings, xp, reviewOps>>

\* ------------------------------------------------------- Booking schema
\* The paths of bookingSchema the handlers touch.  The schema declares no
\* `payments` and no `totalPaid` path.
NewBooking(e, s, caller, price) ==
  [event |-> e, service |-> s, organizer |-> caller,
   vendor |-> ServiceDb[s].provider,
   status |-> "pending",
   priceAgreed |-> price, pricePaid |-> 0, paymentStatus |-> "unpaid",
   cancellationReason |-> None, cancelledBy |-> None, cancelledAt |-> NoTime,
   completedAt |-> NoTime]

BookingFields == DOMAIN NewBooking("e1", "s1", "o", 0)

ActiveStatus(st) == st \notin {"cancelled", "refunded"}

\* Booking.findOne({event, service, status: {$nin: [cancelled, refunded]}})
ExistingBooking(e, s) ==
  \E i \in 1..Len(bookings) :
    /\ bookings[i].event = e
    /\ bookings[i].service = s
    /\ ActiveStatus(bookings[i].status)

\* document.save(): $set of the paths whose value differs from the loaded one
SaveDoc(stored, snap, doc) ==
  [f \in BookingFields |-> IF doc[f] # snap[f] THEN doc[f] ELSE stored[f]]

\* Mutant of PostSaveCounters: the isModified('status') test is missing.
PostSaveCountersAnySave(s, isNew, snap, doc) ==
  LET c1 == IF isNew
              THEN [svc[s] EXCEPT !.totalBookings = @ + 1]
              ELSE svc[s]
      c2 == IF doc.status = "completed"
              THEN [c1 EXCEPT !.completedBookings = @ + 1]
              ELSE c1
  IN  [svc EXCEPT ![s] = c2]

\* bookingSchema.post('save'): the Service counters
PostSaveCounters(s, isNew, snap, doc) ==
  LET c1 == IF isNew
              THEN [svc[s] EXCEPT !.totalBookings = @ + 1]
              ELSE svc[s]
      c2 == IF doc.status = "completed" /\ (isNew \/ snap.status # doc.status)
              THEN [c1 EXCEPT !.completedBookings = @ + 1]
              ELSE c1
  IN  [svc EXCEPT ![s] = c2]

\* Notification.createNotification(data)
Notification(recipient, type, title, bookingId) ==
  [recipient |-> recipient, type |-> type, title |-> title, booking |-> bookingId]

Notify(recipient, type, title, bookingId) ==
  notifications (+) SetToBag({Notification(recipient, type, title, bookingId)})

\* A response: the request it answers and its outcome ("ok" or the error).
Event(op, caller, id, e, s, result) ==
  [op |-> op, caller |-> caller, id |-> id, event |-> e, service |-> s,
   result |-> result]

NoEvent == Event(None, None, 0, None, None, None)

NoReq == [op |-> None]

\* ratingAverage (in tenths) and totalRatings at their schema defaults
NoRating == [ratingAverage |-> 0, totalRatings |-> 0]

\* ---------------------------------------------------------------- Init
Init ==
  /\ bookings = <<>>
  /\ svc = [s \in DOMAIN ServiceDb |-> [totalBookings |-> 0, completedBookings |-> 0]]
  /\ notifications = EmptyBag
  /\ pc = [p \in Procs |-> "idle"]
  /\ req = [p \in Procs |-> NoReq]
  /\ ev = NoEvent
  /\ now = 0
  /\ ledger = <<>>
  /\ rsvps = <<>>
  /\ attendance = [e \in DOMAIN EventDb |-> [currentAttendees |-> 0, rsvpCount |-> 0]]
  /\ reviews = <<>>
  /\ ratings = [service |-> [s \in DOMAIN ServiceDb |-> NoRating],
                vendor |-> [u \in Users |-> NoRating]]
  /\ xp = [u \in Users |-> 0]
  /\ reviewOps = 0

\* Slot p can take a request: the previous response has been sent, the
\* slot is idle, and slot 2 is used only while slot 1 is busy (the slots are
\* interchangeable).
Ready(p) ==
  /\ ev = NoEvent
  /\ pc[p] = "idle"
  /\ p = 1 \/ pc[1] # "idle"

\* Slot p is at the write stretch `at` of its handler.
At(p, at) == ev = NoEvent /\ pc[p] = at

\* A guard failed: the handler answers `result` and nothing is written.
Reject(p, op, caller, id, e, s, result) ==
  /\ ev' = Event(op, caller, id, e, s, result)
  /\ UNCHANGED <<bookings, svc, notifications, pc, req, now, ledger, rsvpVars, reviewVars>>

\* The guards passed: the handler goes on to its write stretch.  The model
\* follows MaxRequests such requests.
Proceed(p, next, r) ==
  /\ now < MaxRequests
  /\ now' = now + 1
  /\ req' = [req EXCEPT ![p] = r]
  /\ pc' = [pc EXCEPT ![p] = next]
  /\ UNCHANGED <<bookings, svc, notifications, ledger, ev, rsvpVars, reviewVars>>

\* ------------------------------------------------------- createBooking
\* Mutant of CreateGuard: the existing-booking check is missing.
CreateGuardNoExistingCheck(caller, e, s) ==
  IF e \notin DOMAIN EventDb THEN "NotFound"
  ELSE IF s \notin DOMAIN ServiceDb THEN "NotFound"
  ELSE IF EventDb[e].organizer # caller THEN "Forbidden"
  ELSE IF ServiceDb[s].availability = "not_taking_orders" THEN "NotAccepting"
  ELSE "pending"

\* Mutant of CreateGuard: the organizer check is missing.
CreateGuardAnyCaller(caller, e, s) ==
  IF e \notin DOMAIN EventDb THEN "NotFound"
  ELSE IF s \notin DOMAIN ServiceDb THEN "NotFound"
  ELSE IF ServiceDb[s].availability = "not_taking_orders" THEN "NotAccepting"
  ELSE IF ExistingBooking(e, s) THEN "Conflict"
  ELSE "pending"

CreateGuard(caller, e, s) ==
  IF e \notin DOMAIN EventDb THEN "NotFound"
  ELSE IF s \notin DOMAIN ServiceDb THEN "NotFound"
  ELSE IF EventDb[e].organizer # caller THEN "Forbidden"
  ELSE IF ServiceDb[s].availability = "not_taking_orders" THEN "NotAccepting"
  ELSE IF ExistingBooking(e, s) THEN "Conflict"
  ELSE "pending"

CreateBookingCheck(p) ==
  /\ Ready(p)
  /\ \E caller \in Users, e \in EventIds, s \in ServiceIds, price \in Prices :
       LET g == CreateGuard(caller, e, s) IN
       IF g # "pending"
         THEN Reject(p, "create", caller, 0, e, s, g)
         ELSE Proceed(p, "createInsert",
                      [op |-> "create", caller |-> caller, id |-> 0,
                       event |-> e, service |-> s, price |-> price])

CreateBookingInsert(p) ==
  /\ At(p, "createInsert")
  /\ LET r == req[p]
         doc == NewBooking(r.event, r.service, r.caller, r.price)
         id == Len(bookings) + 1
     IN  /\ bookings' = Append(bookings, doc)
         /\ ledger' = Append(ledger, 0)
         /\ svc' = PostSaveCounters(r.service, TRUE, doc, doc)
         /\ notifications' = Notify(doc.vendor, "booking", "New Booking Request", id)
         /\ ev' = Event("create", r.caller, id, r.event, r.service, "ok")
  /\ pc' = [pc EXCEPT ![p] = "idle"]
  /\ req' = [req EXCEPT ![p] = NoReq]
  /\ UNCHANGED <<now, rsvpVars, reviewVars>>

\* The booking a handler addresses: an existing _id, or one with no document.
BookingIdsAsked == 1..(Len(bookings) + 1)

BookingExists(id) == id \in 1..Len(bookings)

LoadReq(op, caller, id) ==
  [op |-> op, caller |-> caller, id |-> id,
   event |-> bookings[id].event, service |-> bookings[id].service,
   snap |-> bookings[id]]

\* The write stretch of a handler that loaded `snap`, changed it to `doc`,
\* saved it and notified `recipient`.
SaveAndNotify(p, doc, recipient, type, title) ==
  LET r == req[p] IN
  /\ bookings' = [bookings EXCEPT ![r.id] = SaveDoc(@, r.snap, doc)]
  /\ svc' = PostSaveCounters(r.service, FALSE, r.snap, doc)
  /\ notifications' = Notify(recipient, type, title, r.id)
  /\ ev' = Event(r.op, r.caller, r.id, r.event, r.service, "ok")
  /\ pc' = [pc EXCEPT ![p] = "idle"]
  /\ req' = [req EXCEPT ![p] = NoReq]
  /\ UNCHANGED <<now, rsvpVars, reviewVars>>

\* ------------------------------------------------------ confirmBooking
\* Mutant of ConfirmGuard: the status check is missing.
ConfirmGuardAnyStatus(caller, id) ==
  IF ~BookingExists(id) THEN "NotFound"
  ELSE IF bookings[id].vendor # caller THEN "Forbidden"
  ELSE "pending"

\* Mutant of ConfirmGuard: the vendor check is missing.
ConfirmGuardAnyCaller(caller, id) ==
  IF ~BookingExists(id) THEN "NotFound"
  ELSE IF bookings[id].status # "pending" THEN "InvalidState"
  ELSE "pending"

ConfirmGuard(caller, id) ==
  IF ~BookingExists(id) THEN "NotFound"
  ELSE IF bookings[id].vendor # caller THEN "Forbidden"
  ELSE IF bookings[id].status # "pending" THEN "InvalidState"
  ELSE "pending"

ConfirmBookingLoad(p) ==
  /\ Ready(p)
  /\ \E caller \in Users, id \in BookingIdsAsked :
       LET g == ConfirmGuard(caller, id) IN
       IF g # "pending"
         THEN Reject(p, "confirm", caller, id, None, None, g)
         ELSE Proceed(p, "confirmSave", LoadReq("confirm", caller, id))

ConfirmBookingSave(p) ==
  /\ At(p, "confirmSave")
  /\ LET doc == [req[p].snap EXCEPT !.status = "confirmed"]
     IN  /\ SaveAndNotify(p, doc, doc.organizer, "booking", "Booking Confirmed")
         /\ UNCHANGED ledger

\* ------------------------------------------------------- cancelBooking
\* Mutant of CancelGuard: the caller is tested against the organizer only
\* with `||` in place of `&&`, which lets anyone but a user who is both
\* organizer and vendor through as far as the status check.
CancelGuardWrongCallerTest(caller, id) ==
  IF ~BookingExists(id) THEN "NotFound"
  ELSE IF bookings[id].organizer = caller /\ bookings[id].vendor = caller
    THEN "Forbidden"
  ELSE IF bookings[id].status = "completed" THEN "InvalidState"
  ELSE "pending"

CancelGuard(caller, id) ==
  IF ~BookingExists(id) THEN "NotFound"
  ELSE IF bookings[id].organizer # caller /\ bookings[id].vendor # caller
    THEN "Forbidden"
  ELSE IF bookings[id].status = "completed" THEN "InvalidState"
  ELSE "pending"

CancelBookingLoad(p) ==
  /\ Ready(p)
  /\ \E caller \in Users, id \in BookingIdsAsked, reason \in Reasons :
       LET g == CancelGuard(caller, id) IN
       IF g # "pending"
         THEN Reject(p, "cancel", caller, id, None, None, g)
         ELSE Proceed(p, "cancelSave",
                      LoadReq("cancel", caller, id) @@ [reason |-> reason])

CancelBookingSave(p) ==
  /\ At(p, "cancelSave")
  /\ LET r == req[p]
         doc == [r.snap EXCEPT !.status = "cancelled",
                               !.cancellationReason = r.reason,
                               !.cancelledBy = r.caller,
                               !.cancelledAt = now]
         notifyUser == IF doc.organizer = r.caller THEN doc.vendor
                                                   ELSE doc.organizer
     IN  /\ SaveAndNotify(p, doc, notifyUser, "booking", "Booking Cancelled")
         /\ UNCHANGED ledger

\* ----------------------------------------------------- completeBooking
\* Mutant of CompleteGuard: a pending booking can be completed too.
CompleteGuardFromPending(caller, id) ==
  IF ~BookingExists(id) THEN "NotFound"
  ELSE IF bookings[id].organizer # caller THEN "Forbidden"
  ELSE IF bookings[id].status \notin {"pending", "confirmed", "in_progress"}
    THEN "InvalidState"
  ELSE "pending"

CompleteGuard(caller, id) ==
  IF ~BookingExists(id) THEN "NotFound"
  ELSE IF bookings[id].organizer # caller THEN "Forbidden"
  ELSE IF bookings[id].status # "confirmed" /\ bookings[id].status # "in_progress"
    THEN "InvalidState"
  ELSE "pending"

CompleteBookingLoad(p) ==
  /\ Ready(p)
  /\ \E caller \in Users, id \in BookingIdsAsked :
       LET g == CompleteGuard(caller, id) IN
       IF g # "pending"
         THEN Reject(p, "complete", caller, id, None, None, g)
         ELSE Proceed(p, "completeSave", LoadReq("complete", caller, id))

CompleteBookingSave(p) ==
  /\ At(p, "completeSave")
  /\ LET doc == [req[p].snap EXCEPT !.status = "completed", !.completedAt = now]
     IN  /\ SaveAndNotify(p, doc, doc.vendor, "booking", "Booking Completed")
         /\ UNCHANGED ledger

\* ------------------------------------------- updatePayment / recordPayment
\* reduce((sum, p) => sum + p.amount, 0)
RECURSIVE SumAmounts(_)
SumAmounts(payments) ==
  IF payments = <<>> THEN 0
  ELSE Head(payments) + SumAmounts(Tail(payments))

\* booking.payments of a loaded document: bookingSchema declares no such
\* path, so nothing is stored or loaded under it and the handler starts
\* from `if (!booking.payments) booking.payments = []`.
LoadedPayments(snap) == <<>>

\* The payment status the handler leaves on the document.
PaymentStatusAfter(current, totalPaid, priceAgreed) ==
  IF totalPaid >= priceAgreed THEN "paid"
  ELSE IF totalPaid > 0 THEN "partial"
  ELSE current

\* The document after push, reduce and the status update.
WithPayment(snap, amount) ==
  LET payments == Append(LoadedPayments(snap), amount)
      totalPaid == SumAmounts(payments)
  IN  [snap EXCEPT !.pricePaid = totalPaid,
                   !.paymentStatus =
                      PaymentStatusAfter(snap.paymentStatus, totalPaid,
                                         snap.priceAgreed)]

\* Schema validation on save: pricePaid has min 0.
ValidBooking(doc) == doc.pricePaid >= 0 /\ doc.priceAgreed >= 0

\* The write stretch of both payment handlers.
PaymentSave(p, recipient, title) ==
  LET r == req[p]
      doc == WithPayment(r.snap, r.amount)
  IN  IF ValidBooking(doc)
        THEN /\ SaveAndNotify(p, doc, recipient, "payment", title)
             /\ ledger' = [ledger EXCEPT ![r.id] = @ + r.amount]
        ELSE /\ ev' = Event(r.op, r.caller, r.id, r.event, r.service,
                            "ValidationError")
             /\ pc' = [pc EXCEPT ![p] = "idle"]
             /\ req' = [req EXCEPT ![p] = NoReq]
             /\ UNCHANGED <<bookings, svc, notifications, now, ledger, rsvpVars, reviewVars>>

UpdatePaymentGuard(caller, id) ==
  IF ~BookingExists(id) THEN "NotFound"
  ELSE IF bookings[id].organizer # caller THEN "Forbidden"
  ELSE "pending"

UpdatePaymentLoad(p) ==
  /\ Ready(p)
  /\ \E caller \in Users, id \in BookingIdsAsked, amount \in Amounts :
       LET g == UpdatePaymentGuard(caller, id) IN
       IF g # "pending"
         THEN Reject(p, "updatePayment", caller, id, None, None, g)
         ELSE Proceed(p, "updatePaymentSave",
                      LoadReq("updatePayment", caller, id) @@ [amount |-> amount])

UpdatePaymentSave(p) ==
  /\ At(p, "updatePaymentSave")
  /\ PaymentSave(p, req[p].snap.vendor, "Payment Received")

RecordPaymentGuard(caller, id, amount) ==
  IF amount <= 0 THEN "ValidationError"
  ELSE IF ~BookingExists(id) THEN "NotFound"
  ELSE IF bookings[id].vendor # caller THEN "Forbidden"
  ELSE "pending"

RecordPaymentLoad(p) ==
  /\ Ready(p)
  /\ \E caller \in Users, id \in BookingIdsAsked, amount \in Amounts :
       LET g == RecordPaymentGuard(caller, id, amount) IN
       IF g # "pending"
         THEN Reject(p, "recordPayment", caller, id, None, None, g)
         ELSE Proceed(p, "recordPaymentSave",
                      LoadReq("recordPayment", caller, id) @@ [amount |-> amount])

RecordPaymentSave(p) ==
  /\ At(p, "recordPaymentSave")
  /\ PaymentSave(p, req[p].snap.organizer, "Payment Recorded")

\* ------------------------------------------------------- updateBooking
UpdateBookingGuard(caller, id) ==
  IF ~BookingExists(id) THEN "NotFound"
  ELSE IF bookings[id].organizer # caller THEN "Forbidden"
  ELSE IF bookings[id].status # "pending" THEN "InvalidState"
  ELSE "pending"

UpdateBookingLoad(p) ==
  /\ Ready(p)
  /\ \E caller \in Users, id \in BookingIdsAsked, price \in Prices :
       LET g == UpdateBookingGuard(caller, id) IN
       IF g # "pending"
         THEN Reject(p, "update", caller, id, None, None, g)
         ELSE Proceed(p, "updateWrite",
                      LoadReq("update", caller, id) @@ [price |-> price])

\* Booking.findByIdAndUpdate(id, {priceAgreed, ...}): a $set on the stored
\* document; no save hook runs and nobody is notified.
UpdateBookingWrite(p) ==
  /\ At(p, "updateWrite")
  /\ LET r == req[p] IN
       /\ bookings' = [bookings EXCEPT ![r.id].priceAgreed = r.price]
       /\ ev' = Event(r.op, r.caller, r.id, r.event, r.service, "ok")
  /\ pc' = [pc EXCEPT ![p] = "idle"]
  /\ req' = [req EXCEPT ![p] = NoReq]
  /\ UNCHANGED <<svc, notifications, now, ledger, rsvpVars, reviewVars>>

\* ================================================================ RSVP
RsvpStatuses == {"going", "maybe", "not_going", "cancelled"}

\* RSVP.create({event, attendee, status, guestsCount}) with the schema
\* defaults of the check-in paths
NewRsvp(e, a, status, guestsCount) ==
  [event |-> e, attendee |-> a, status |-> status, guestsCount |-> guestsCount,
   checkedIn |-> FALSE, checkedInAt |-> NoTime]

\* RSVP.findOne({event, attendee}): the _id of the RSVP, 0 when there is none
FindRsvp(e, a) ==
  IF \E i \in 1..Len(rsvps) : rsvps[i].event = e /\ rsvps[i].attendee = a
    THEN CHOOSE i \in 1..Len(rsvps) : rsvps[i].event = e /\ rsvps[i].attendee = a
    ELSE 0

\* RSVP.countDocuments({event, status: 'going'})
GoingCount(rs, e) ==
  Cardinality({i \in 1..Len(rs) : rs[i].event = e /\ rs[i].status = "going"})

\* rsvpSchema.post('save'): both counters are set to the count of going RSVPs
Recount(rs, e) ==
  [attendance EXCEPT ![e] = [currentAttendees |-> GoingCount(rs, e),
                             rsvpCount |-> GoingCount(rs, e)]]

\* The capacity test of createRSVP.
CreateCapacityExceeded(e, guestsCount) ==
  /\ EventDb[e].maxAttendees # Unset
  /\ attendance[e].currentAttendees + 1 + guestsCount > EventDb[e].maxAttendees

CreateRSVPGuard(e, guestsCount) ==
  IF e \notin DOMAIN EventDb THEN "NotFound"
  ELSE IF CreateCapacityExceeded(e, guestsCount) THEN "CapacityExceeded"
  ELSE "ok"

RsvpReady == ev = NoEvent

\* The model follows MaxRequests requests that pass their guards.
RsvpTick == now < MaxRequests /\ now' = now + 1

\* The response to an RSVP request, with the status and guestsCount the
\* request body carried.
RsvpAnswer(op, caller, id, e, status, guestsCount, result) ==
  /\ ev' = Event(op, caller, id, e, None, result)
             @@ [status |-> status, guestsCount |-> guestsCount]
  /\ UNCHANGED <<bookingVars, reviewVars>>

\* A guard failed.  NotFound and Forbidden are answered before the handler
\* looks at status or guestsCount.
RsvpReject(op, caller, id, e, status, guestsCount, result) ==
  /\ IF result = "CapacityExceeded"
       THEN RsvpAnswer(op, caller, id, e, status, guestsCount, result)
       ELSE RsvpAnswer(op, caller, id, e, None, NoGuests, result)
  /\ UNCHANGED <<rsvps, attendance, notifications, now>>

\* createRSVP: create the caller's RSVP for the event or update it in place.
CreateRSVP ==
  /\ RsvpReady
  /\ \E caller \in Attendees, e \in EventIds,
        status \in {"going", "maybe", "not_going"}, guestsCount \in 0..MaxGuests :
       LET g == CreateRSVPGuard(e, guestsCount)
           found == FindRsvp(e, caller)
           rs == IF found # 0
                   THEN [rsvps EXCEPT ![found].status = status,
                                      ![found].guestsCount = guestsCount]
                   ELSE Append(rsvps, NewRsvp(e, caller, status, guestsCount))
           id == IF found # 0 THEN found ELSE Len(rsvps) + 1
       IN  IF g # "ok"
             THEN RsvpReject("createRSVP", caller, 0, e, status, guestsCount, g)
             ELSE /\ rsvps' = rs
                  /\ attendance' = Recount(rs, e)
                  /\ notifications' =
                       IF found = 0 /\ status = "going"
                         THEN Notify(EventDb[e].organizer, "rsvp", "New RSVP", 0)
                         ELSE notifications
                  /\ RsvpTick
                  /\ RsvpAnswer("createRSVP", caller, id, e, status, guestsCount, "ok")

\* The attendee total of an RSVP as updateRSVP computes it.
RsvpTotal(status, guestsCount) ==
  IF status = "going"
    THEN 1 + (IF guestsCount = NoGuests THEN 0 ELSE guestsCount)
    ELSE 0

UpdateRSVPGuard(caller, id, status, guestsCount) ==
  IF id \notin 1..Len(rsvps) THEN "NotFound"
  ELSE IF rsvps[id].attendee # caller THEN "Forbidden"
  ELSE LET e == rsvps[id].event
           diff == RsvpTotal(status, guestsCount)
                     - RsvpTotal(rsvps[id].status, rsvps[id].guestsCount)
       IN  IF /\ diff > 0
              /\ EventDb[e].maxAttendees # Unset
              /\ attendance[e].currentAttendees + diff > EventDb[e].maxAttendees
             THEN "CapacityExceeded"
             ELSE "ok"

Max0(n) == IF n < 0 THEN 0 ELSE n

\* updateRSVP: a field absent from the body (None) is left as it is.  The
\* RSVP is saved (and the post-save hook recounts), then the event loaded
\* before the save gets currentAttendees + diff and is saved: event.save()
\* writes currentAttendees only when that differs from the loaded value.
UpdateRSVP ==
  /\ RsvpReady
  /\ \E caller \in Attendees, id \in 1..(Len(rsvps) + 1),
        status \in RsvpStatuses \cup {None},
        guestsCount \in (0..MaxGuests) \cup {NoGuests} :
       LET g == UpdateRSVPGuard(caller, id, status, guestsCount) IN
       IF g # "ok"
         THEN RsvpReject("updateRSVP", caller, id, None, status, guestsCount, g)
         ELSE LET e == rsvps[id].event
                  loaded == attendance[e].currentAttendees
                  diff == RsvpTotal(status, guestsCount)
                            - RsvpTotal(rsvps[id].status, rsvps[id].guestsCount)
                  rs == [rsvps EXCEPT
                           ![id].status = IF status # None THEN status ELSE @,
                           ![id].guestsCount =
                              IF guestsCount # NoGuests THEN guestsCount ELSE @]
                  recounted == Recount(rs, e)
                  adjusted == Max0(loaded + diff)
              IN  /\ rsvps' = rs
                  /\ attendance' =
                       IF diff # 0 /\ adjusted # loaded
                         THEN [recounted EXCEPT ![e].currentAttendees = adjusted]
                         ELSE recounted
                  /\ RsvpTick
                  /\ UNCHANGED notifications
                  /\ RsvpAnswer("updateRSVP", caller, id, e, status, guestsCount, "ok")

CancelRSVPGuard(caller, id) ==
  IF id \notin 1..Len(rsvps) THEN "NotFound"
  ELSE IF rsvps[id].attendee # caller THEN "Forbidden"
  ELSE "ok"

CancelRSVP ==
  /\ RsvpReady
  /\ \E caller \in Attendees, id \in 1..(Len(rsvps) + 1) :
       LET g == CancelRSVPGuard(caller, id) IN
       IF g # "ok"
         THEN RsvpReject("cancelRSVP", caller, id, None, None, NoGuests, g)
         ELSE LET rs == [rsvps EXCEPT ![id].status = "cancelled"] IN
              /\ rsvps' = rs
              /\ attendance' = Recount(rs, rsvps[id].event)
              /\ RsvpTick
              /\ UNCHANGED notifications
              /\ RsvpAnswer("cancelRSVP", caller, id, rsvps[id].event,
                            None, NoGuests, "ok")

\* ------------------------------------------ checkInAttendee / checkInByCode
\* event.coOrganizers of the events: "v" is a co-organizer of "e1".
CoOrganizers(e) == IF e = "e1" THEN {"v"} ELSE {}

\* isAuthorized: the event's organizer or one of its co-organizers
IsAuthorized(e, caller) ==
  EventDb[e].organizer = caller \/ caller \in CoOrganizers(e)

\* rsvpSchema.pre('save'): checkInCode is made of the event's and the
\* attendee's ids, so within an event a code names an attendee; "zz" is a
\* code no RSVP has.
CheckInCodes == Attendees \cup {"zz"}

CheckInAttendeeGuard(caller, id) ==
  IF id \notin 1..Len(rsvps) THEN "NotFound"
  ELSE IF ~IsAuthorized(rsvps[id].event, caller) THEN "Forbidden"
  ELSE "ok"

\* rsvp.checkedIn = true; rsvp.checkedInAt = new Date(); await rsvp.save()
\* (the post-save hook recounts the event's going RSVPs)
CheckedIn(id) ==
  /\ rsvps' = [rsvps EXCEPT ![id].checkedIn = TRUE, ![id].checkedInAt = now]
  /\ attendance' = Recount(rsvps, rsvps[id].event)
  /\ RsvpTick
  /\ UNCHANGED notifications

CheckInAttendee ==
  /\ RsvpReady
  /\ \E caller \in Users, id \in 1..(Len(rsvps) + 1) :
       LET g == CheckInAttendeeGuard(caller, id) IN
       IF g # "ok"
         THEN RsvpReject("checkIn", caller, id, None, None, NoGuests, g)
         ELSE /\ CheckedIn(id)
              /\ RsvpAnswer("checkIn", caller, id, rsvps[id].event,
                            None, NoGuests, "ok")

CheckInByCodeGuard(caller, e, code) ==
  IF e \notin DOMAIN EventDb THEN "NotFound"
  ELSE IF ~IsAuthorized(e, caller) THEN "Forbidden"
  ELSE IF FindRsvp(e, code) = 0 THEN "NotFound"
  ELSE IF rsvps[FindRsvp(e, code)].checkedIn THEN "AlreadyCheckedIn"
  ELSE "ok"

CheckInByCode ==
  /\ RsvpReady
  /\ \E caller \in Users, e \in EventIds, code \in CheckInCodes :
       LET g == CheckInByCodeGuard(caller, e, code)
           id == IF e \in DOMAIN EventDb THEN FindRsvp(e, code) ELSE 0
       IN  IF g # "ok"
             THEN RsvpReject("checkInByCode", caller, id, e, None, NoGuests, g)
             ELSE /\ CheckedIn(id)
                  /\ RsvpAnswer("checkInByCode", caller, id, e,
                                None, NoGuests, "ok")

\* ---------------------------------- createRSVP, interleaving at its awaits
\* Mutant of UniqueIndexAllows: the collection has no unique index.
UniqueIndexMissing(e, a) == TRUE

\* rsvpSchema.index({event: 1, attendee: 1}, {unique: true}): an insert is
\* accepted when the collection holds no RSVP of the pair.
UniqueIndexAllows(e, a) == FindRsvp(e, a) = 0

\* await Event.findById(eventId), then the capacity test.  createRSVP
\* only ever tests status against going, so one other status is drawn.
CreateRSVPLoad(p) ==
  /\ Ready(p)
  /\ \E caller \in Attendees, e \in EventIds,
        status \in {"going", "maybe"}, guestsCount \in 0..MaxGuests :
       LET g == CreateRSVPGuard(e, guestsCount) IN
       IF g # "ok"
         THEN /\ ev' = Event("createRSVP", caller, 0, e, None, g)
              /\ UNCHANGED <<bookings, svc, notifications, pc, req, now, ledger,
                             rsvpVars, reviewVars>>
         ELSE /\ now < MaxUpserts
              /\ now' = now + 1
              /\ req' = [req EXCEPT ![p] =
                           [op |-> "createRSVP", caller |-> caller, event |-> e,
                            status |-> status, guestsCount |-> guestsCount]]
              /\ pc' = [pc EXCEPT ![p] = "rsvpFind"]
              /\ UNCHANGED <<bookings, svc, notifications, ledger, ev, rsvpVars, reviewVars>>

\* await RSVP.findOne({event, attendee})
CreateRSVPFind(p) ==
  /\ At(p, "rsvpFind")
  /\ LET found == FindRsvp(req[p].event, req[p].caller) IN
       req' = [req EXCEPT ![p] =
                 @ @@ [found |-> found,
                       snap |-> IF found = 0 THEN NoReq ELSE rsvps[found]]]
  /\ pc' = [pc EXCEPT ![p] = "rsvpWrite"]
  /\ UNCHANGED <<bookings, svc, notifications, ledger, ev, now, rsvpVars, reviewVars>>

\* await rsvp.save() on the RSVP that was found, or await RSVP.create(...),
\* which the unique index can refuse.
CreateRSVPWrite(p) ==
  /\ At(p, "rsvpWrite")
  /\ LET r == req[p] IN
       IF r.found # 0
         THEN /\ rsvps' = [rsvps EXCEPT
                   ![r.found].status =
                      IF r.status # r.snap.status THEN r.status ELSE @,
                   ![r.found].guestsCount =
                      IF r.guestsCount # r.snap.guestsCount
                        THEN r.guestsCount ELSE @]
              /\ pc' = [pc EXCEPT ![p] = "rsvpCount"]
              /\ UNCHANGED <<req, ev>>
         ELSE IF UniqueIndexAllows(r.event, r.caller)
           THEN /\ rsvps' = Append(rsvps, NewRsvp(r.event, r.caller, r.status,
                                                   r.guestsCount))
                /\ pc' = [pc EXCEPT ![p] = "rsvpCount"]
                /\ UNCHANGED <<req, ev>>
           ELSE /\ ev' = Event("createRSVP", r.caller, 0, r.event, None,
                               "DuplicateKey")
                /\ pc' = [pc EXCEPT ![p] = "idle"]
                /\ req' = [req EXCEPT ![p] = NoReq]
                /\ UNCHANGED rsvps
  /\ UNCHANGED <<bookings, svc, notifications, ledger, now, attendance,
                 reviewVars>>

\* rsvpSchema.post('save'): await countDocuments({event, status: 'going'})
CreateRSVPCount(p) ==
  /\ At(p, "rsvpCount")
  /\ req' = [req EXCEPT ![p] =
               @ @@ [count |-> GoingCount(rsvps, req[p].event)]]
  /\ pc' = [pc EXCEPT ![p] = "rsvpUpdate"]
  /\ UNCHANGED <<bookings, svc, notifications, ledger, ev, now, rsvpVars, reviewVars>>

\* rsvpSchema.post('save'): await Event.findByIdAndUpdate(...); then the
\* organizer's notification for a new going RSVP, and the response.
CreateRSVPUpdate(p) ==
  /\ At(p, "rsvpUpdate")
  /\ LET r == req[p] IN
       /\ attendance' = [attendance EXCEPT ![r.event] =
                           [currentAttendees |-> r.count, rsvpCount |-> r.count]]
       /\ notifications' =
            IF r.found = 0 /\ r.status = "going"
              THEN Notify(EventDb[r.event].organizer, "rsvp", "New RSVP", 0)
              ELSE notifications
       /\ ev' = Event("createRSVP", r.caller,
                      FindRsvp(r.event, r.caller), r.event, None, "ok")
  /\ pc' = [pc EXCEPT ![p] = "idle"]
  /\ req' = [req EXCEPT ![p] = NoReq]
  /\ UNCHANGED <<bookings, svc, ledger, now, rsvps, reviewVars>>

\* ============================================================== reviews
\* rating: an integer from 1 to 5 (reviewValidations); the two ends are drawn
Ratings == {1, 5}

\* Review.findOne({booking}): the index of the review, 0 when there is none
FindReview(b) ==
  IF \E i \in 1..Len(reviews) : reviews[i].booking = b
    THEN CHOOSE i \in 1..Len(reviews) : reviews[i].booking = b
    ELSE 0

\* Mutant of ReviewIndexAllows: `booking` has no unique index.
ReviewIndexMissing(b) == TRUE

\* reviewSchema.booking is `unique: true`: an insert is accepted when the
\* collection holds no review of the booking.
ReviewIndexAllows(b) == FindReview(b) = 0

\* Mutant of CreateReviewGuard: the status check is missing.
CreateReviewGuardAnyStatus(caller, id) ==
  IF ~BookingExists(id) THEN "NotFound"
  ELSE IF bookings[id].organizer # caller THEN "Forbidden"
  ELSE "ok"

CreateReviewGuard(caller, id) ==
  IF ~BookingExists(id) THEN "NotFound"
  ELSE IF bookings[id].organizer # caller THEN "Forbidden"
  ELSE IF bookings[id].status # "completed" THEN "InvalidState"
  ELSE "ok"

RECURSIVE SumRatings(_)
SumRatings(rs) ==
  IF rs = <<>> THEN 0 ELSE Head(rs).rating + SumRatings(Tail(rs))

\* Math.round(avgRating * 10) / 10, kept in tenths
RoundTenths(sum, n) == (20 * sum + n) \div (2 * n)

\* Mutant of RatingStats: the count is added to the stored one instead of
\* replacing it.
RatingStatsIncremental(rs, S, old) ==
  LET matched == SelectSeq(rs, LAMBDA r : r.service \in S /\ r.isApproved)
  IN  IF matched = <<>> THEN old
      ELSE [ratingAverage |-> RoundTenths(SumRatings(matched), Len(matched)),
            totalRatings |-> old.totalRatings + Len(matched)]

\* The $match / $group of updateServiceRating and updateVendorRating over
\* the approved reviews of the services S; `old` when there is none.
RatingStats(rs, S, old) ==
  LET matched == SelectSeq(rs, LAMBDA r : r.service \in S /\ r.isApproved)
  IN  IF matched = <<>> THEN old
      ELSE [ratingAverage |-> RoundTenths(SumRatings(matched), Len(matched)),
            totalRatings |-> Len(matched)]

\* reviewSchema.post('save'): updateServiceRating, then updateVendorRating
RecountedRatings(stored, rs, s) ==
  LET provider == ServiceDb[s].provider
      own == {t \in DOMAIN ServiceDb : ServiceDb[t].provider = provider}
  IN  [service |-> [stored.service EXCEPT ![s] = RatingStats(rs, {s}, NoRating)],
       vendor |-> [stored.vendor EXCEPT
                     ![provider] = RatingStats(rs, own, stored.vendor[provider])]]

RatingsAfter(rs, s) == RecountedRatings(ratings, rs, s)

\* await Booking.findById(bookingId), then the organizer and status tests
CreateReviewLoad(p) ==
  /\ Ready(p)
  /\ \E caller \in Users, id \in BookingIdsAsked, rating \in Ratings :
       LET g == CreateReviewGuard(caller, id) IN
       IF g # "ok"
         THEN Reject(p, "createReview", caller, id, None, None, g)
         ELSE /\ req' = [req EXCEPT ![p] =
                           LoadReq("createReview", caller, id)
                             @@ [rating |-> rating]]
              /\ pc' = [pc EXCEPT ![p] = "reviewFind"]
              /\ UNCHANGED <<bookings, svc, notifications, ledger, ev, now,
                             rsvpVars, reviewVars>>

\* await Review.findOne({booking: bookingId})
CreateReviewFind(p) ==
  /\ At(p, "reviewFind")
  /\ IF FindReview(req[p].id) # 0
       THEN /\ ev' = Event("createReview", req[p].caller, req[p].id,
                           req[p].event, req[p].service, "Conflict")
            /\ pc' = [pc EXCEPT ![p] = "idle"]
            /\ req' = [req EXCEPT ![p] = NoReq]
       ELSE /\ pc' = [pc EXCEPT ![p] = "reviewCreate"]
            /\ UNCHANGED <<req, ev>>
  /\ UNCHANGED <<bookings, svc, notifications, ledger, now, rsvpVars, reviewVars>>

\* await Review.create({...}), which the unique index can refuse
CreateReviewInsert(p) ==
  /\ At(p, "reviewCreate")
  /\ LET r == req[p] IN
       IF ReviewIndexAllows(r.id)
         THEN /\ reviews' = Append(reviews,
                              [booking |-> r.id, service |-> r.snap.service,
                               vendor |-> r.snap.vendor, reviewer |-> r.caller,
                               rating |-> r.rating, isApproved |-> TRUE,
                               helpfulCount |-> 0, helpfulVoters |-> <<>>,
                               version |-> 0])
              /\ pc' = [pc EXCEPT ![p] = "reviewFinish"]
              /\ UNCHANGED <<req, ev>>
         ELSE /\ ev' = Event("createReview", r.caller, r.id, r.event, r.service,
                             "DuplicateKey")
              /\ pc' = [pc EXCEPT ![p] = "idle"]
              /\ req' = [req EXCEPT ![p] = NoReq]
              /\ UNCHANGED reviews
  /\ UNCHANGED <<bookings, svc, notifications, ledger, now, rsvpVars,
                 ratings, xp, reviewOps>>

\* The post-save hook's rating updates, the vendor's notification, the
\* reviewer's XP and the response.
CreateReviewFinish(p) ==
  /\ At(p, "reviewFinish")
  /\ LET r == req[p] IN
       /\ ratings' = RatingsAfter(reviews, r.snap.service)
       /\ notifications' = Notify(r.snap.vendor, "review", "New Review", r.id)
       /\ xp' = [xp EXCEPT ![r.caller] = @ + 10]
       /\ ev' = Event("createReview", r.caller, r.id, r.event, r.service, "ok")
  /\ pc' = [pc EXCEPT ![p] = "idle"]
  /\ req' = [req EXCEPT ![p] = NoReq]
  /\ UNCHANGED <<bookings, svc, ledger, now, rsvpVars, reviews, reviewOps>>

\* ----------------------------------------- update, delete, moderate
\* A review is named by its place in the collection; these handlers run one
\* request at a time, so a place names one review throughout a request.
ReviewIdsAsked == 1..(Len(reviews) + 1)

ReviewExists(i) == i \in 1..Len(reviews)

\* req.user.role === 'admin'
Admins == {"x"}

\* The sequence without its i-th element
RemoveAt(seq, i) == SubSeq(seq, 1, i - 1) \o SubSeq(seq, i + 1, Len(seq))

\* One more request that passed its guards; MaxReviewOps of them are followed.
ReviewOpTick ==
  /\ reviewOps < MaxReviewOps
  /\ reviewOps' = reviewOps + 1

ReviewAnswer(p, op, caller, i, s, result) ==
  /\ ev' = Event(op, caller, i, None, s, result)
  /\ UNCHANGED <<bookings, svc, pc, req, now, ledger, rsvpVars>>

\* `late`: more than 7 days have passed since the review was created
UpdateReviewGuard(caller, i, late) ==
  IF ~ReviewExists(i) THEN "NotFound"
  ELSE IF reviews[i].reviewer # caller THEN "Forbidden"
  ELSE IF late THEN "InvalidState"
  ELSE "ok"

\* Review.findByIdAndUpdate(id, {rating, ...}, {runValidators: true}): a
\* query update, which runs no save hook.
UpdateReview(p) ==
  /\ Ready(p)
  /\ \E caller \in Users, i \in ReviewIdsAsked, rating \in Ratings,
        late \in BOOLEAN :
       LET g == UpdateReviewGuard(caller, i, late) IN
       IF g # "ok"
         THEN Reject(p, "updateReview", caller, i, None, None, g)
         ELSE /\ ReviewOpTick
              /\ reviews' = [reviews EXCEPT ![i].rating = rating]
              /\ ReviewAnswer(p, "updateReview", caller, i, reviews[i].service, "ok")
              /\ UNCHANGED <<notifications, ratings, xp>>

DeleteReviewGuard(caller, i) ==
  IF ~ReviewExists(i) THEN "NotFound"
  ELSE IF reviews[i].reviewer # caller /\ caller \notin Admins THEN "Forbidden"
  ELSE "ok"

\* Review.findByIdAndDelete(id): a query delete, which runs no document
\* 'deleteOne' hook.
DeleteReview(p) ==
  /\ Ready(p)
  /\ \E caller \in Users, i \in ReviewIdsAsked :
       LET g == DeleteReviewGuard(caller, i) IN
       IF g # "ok"
         THEN Reject(p, "deleteReview", caller, i, None, None, g)
         ELSE /\ ReviewOpTick
              /\ reviews' = RemoveAt(reviews, i)
              /\ ReviewAnswer(p, "deleteReview", caller, i, reviews[i].service, "ok")
              /\ UNCHANGED <<notifications, ratings, xp>>

\* restrictTo('admin'), then findByIdAndUpdate returning null for no review
ModerateReviewGuard(caller, i) ==
  IF caller \notin Admins THEN "Forbidden"
  ELSE IF ~ReviewExists(i) THEN "NotFound"
  ELSE "ok"

\* Review.findByIdAndUpdate(id, {isApproved, isFlagged: false}), and the
\* reviewer's notification when the review is rejected.
ModerateReview(p) ==
  /\ Ready(p)
  /\ \E caller \in Users, i \in ReviewIdsAsked, isApproved \in BOOLEAN :
       LET g == ModerateReviewGuard(caller, i) IN
       IF g # "ok"
         THEN Reject(p, "moderateReview", caller, i, None, None, g)
         ELSE /\ ReviewOpTick
              /\ reviews' = [reviews EXCEPT ![i].isApproved = isApproved]
              /\ notifications' =
                   IF isApproved THEN notifications
                   ELSE Notify(reviews[i].reviewer, "system", "Review Rejected", 0)
              /\ ReviewAnswer(p, "moderateReview", caller, i, reviews[i].service, "ok")
              /\ UNCHANGED <<ratings, xp>>

\* ------------------------------------------------------- helpful votes
\* helpfulVoters.includes(userId) / indexOf(userId) > -1
HasVoted(doc, u) == \E k \in 1..Len(doc.helpfulVoters) : doc.helpfulVoters[k] = u

\* helpfulVoters.splice(indexOf(userId), 1): the first occurrence goes
WithoutVote(voters, u) ==
  RemoveAt(voters, CHOOSE k \in 1..Len(voters) :
                     voters[k] = u /\ \A m \in 1..(k - 1) : voters[m] # u)

\* A handler that loaded review i goes on to its save.
HelpfulProceed(p, op, caller, i) ==
  /\ ReviewOpTick
  /\ req' = [req EXCEPT ![p] = [op |-> op, caller |-> caller, id |-> i,
                                snap |-> reviews[i]]]
  /\ pc' = [pc EXCEPT ![p] = op]
  /\ UNCHANGED <<bookings, svc, notifications, ledger, ev, now, rsvpVars,
                 reviews, ratings, xp>>

HelpfulAnswer(p, result) ==
  /\ ev' = Event(req[p].op, req[p].caller, req[p].id, None,
                 req[p].snap.service, result)
  /\ pc' = [pc EXCEPT ![p] = "idle"]
  /\ req' = [req EXCEPT ![p] = NoReq]
  /\ UNCHANGED <<bookings, svc, notifications, ledger, now, rsvpVars,
                 ratings, xp, reviewOps>>

\* markHelpful: Review.findById, then addHelpfulVote's includes test
MarkHelpfulLoad(p) ==
  /\ Ready(p)
  /\ \E caller \in Users, i \in ReviewIdsAsked :
       IF ~ReviewExists(i)
         THEN Reject(p, "markHelpful", caller, i, None, None, "NotFound")
       ELSE IF HasVoted(reviews[i], caller)
         THEN Reject(p, "markHelpful", caller, i, None, reviews[i].service,
                     "AlreadyMarked")
       ELSE HelpfulProceed(p, "markHelpful", caller, i)

\* addHelpfulVote's save: the push on the array is written as $push, the
\* count as the loaded count plus one; the version is incremented.
MarkHelpfulSave(p) ==
  /\ At(p, "markHelpful")
  /\ LET r == req[p] IN
       reviews' = [reviews EXCEPT
                     ![r.id].helpfulVoters = Append(@, r.caller),
                     ![r.id].helpfulCount = r.snap.helpfulCount + 1,
                     ![r.id].version = @ + 1]
  /\ HelpfulAnswer(p, "ok")

\* removeHelpful: Review.findById, then removeHelpfulVote's indexOf test
RemoveHelpfulLoad(p) ==
  /\ Ready(p)
  /\ \E caller \in Users, i \in ReviewIdsAsked :
       IF ~ReviewExists(i)
         THEN Reject(p, "removeHelpful", caller, i, None, None, "NotFound")
       ELSE IF ~HasVoted(reviews[i], caller)
         THEN Reject(p, "removeHelpful", caller, i, None, reviews[i].service,
                     "NotMarked")
       ELSE HelpfulProceed(p, "removeHelpful", caller, i)

\* removeHelpfulVote's save: the spliced array is written whole, the count
\* as the loaded count minus one, and only if the stored version is the
\* loaded one (VersionError otherwise).
RemoveHelpfulSave(p) ==
  /\ At(p, "removeHelpful")
  /\ LET r == req[p] IN
       IF reviews[r.id].version = r.snap.version
         THEN /\ reviews' = [reviews EXCEPT
                               ![r.id].helpfulVoters =
                                  WithoutVote(r.snap.helpfulVoters, r.caller),
                               ![r.id].helpfulCount = r.snap.helpfulCount - 1,
                               ![r.id].version = @ + 1]
              /\ HelpfulAnswer(p, "ok")
         ELSE /\ UNCHANGED reviews
              /\ HelpfulAnswer(p, "VersionError")

HelpfulStep(p) ==
  \/ MarkHelpfulLoad(p)
  \/ MarkHelpfulSave(p)
  \/ RemoveHelpfulLoad(p)
  \/ RemoveHelpfulSave(p)

\* ------------------------------------------- updateService, updateEvent
\* Values a request body gives to a numeric field (within the schemas'
\* validators: ratingAverage is min 0, max 5).
BodyValues == {0, 5}

ServiceAggregates == {"ratingAverage", "totalRatings", "totalBookings",
                      "completedBookings"}
EventAggregates == {"currentAttendees", "rsvpCount"}

\* req.body restricted to the fields F: any of them may be present.  The
\* body's other fields are not followed.
Bodies(F) == UNION {[G -> BodyValues] : G \in SUBSET F}

\* The stored value of `field` after findByIdAndUpdate(id, body)
Updated(body, field, old) == IF field \in DOMAIN body THEN body[field] ELSE old

UpdateServiceGuard(caller, s) ==
  IF s \notin DOMAIN ServiceDb THEN "NotFound"
  ELSE IF ServiceDb[s].provider # caller /\ caller \notin Admins THEN "Forbidden"
  ELSE "ok"

\* Service.findByIdAndUpdate(req.params.id, req.body, {runValidators: true})
UpdateService(p) ==
  /\ Ready(p)
  /\ \E caller \in Users, s \in ServiceIds, body \in Bodies(ServiceAggregates) :
       LET g == UpdateServiceGuard(caller, s) IN
       IF g # "ok"
         THEN Reject(p, "updateService", caller, 0, None, s, g)
         ELSE /\ svc' = [svc EXCEPT ![s] =
                   [totalBookings |->
                      Updated(body, "totalBookings", @.totalBookings),
                    completedBookings |->
                      Updated(body, "completedBookings", @.completedBookings)]]
              /\ ratings' = [ratings EXCEPT !.service[s] =
                   [ratingAverage |->
                      IF "ratingAverage" \in DOMAIN body
                        THEN 10 * body["ratingAverage"] ELSE @.ratingAverage,
                    totalRatings |->
                      Updated(body, "totalRatings", @.totalRatings)]]
              /\ ev' = Event("updateService", caller, 0, None, s, "ok")
              /\ UNCHANGED <<bookings, notifications, pc, req, now, ledger,
                             rsvpVars, reviews, xp, reviewOps>>

UpdateEventGuard(caller, e) ==
  IF e \notin DOMAIN EventDb THEN "NotFound"
  ELSE IF EventDb[e].organizer # caller /\ caller \notin Admins THEN "Forbidden"
  ELSE "ok"

\* Event.findByIdAndUpdate(req.params.id, req.body, {runValidators: true})
UpdateEvent(p) ==
  /\ Ready(p)
  /\ \E caller \in Users, e \in EventIds, body \in Bodies(EventAggregates) :
       LET g == UpdateEventGuard(caller, e) IN
       IF g # "ok"
         THEN Reject(p, "updateEvent", caller, 0, e, None, g)
         ELSE /\ attendance' = [attendance EXCEPT ![e] =
                   [currentAttendees |->
                      Updated(body, "currentAttendees", @.currentAttendees),
                    rsvpCount |-> Updated(body, "rsvpCount", @.rsvpCount)]]
              /\ ev' = Event("updateEvent", caller, 0, e, None, "ok")
              /\ UNCHANGED <<bookings, svc, notifications, pc, req, now, ledger,
                             rsvps, reviewVars>>

\* --------------------------------------------- the rating recount alone
\* What tells one stored review from another in the recount
ReviewChoices == [service : DOMAIN ServiceDb, rating : Ratings,
                  isApproved : BOOLEAN]

\* The k-th stored review, of booking k
StoredReview(k, c) ==
  [booking |-> k, service |-> c.service, vendor |-> ServiceDb[c.service].provider,
   reviewer |-> "o", rating |-> c.rating, isApproved |-> c.isApproved,
   helpfulCount |-> 0, helpfulVoters |-> <<>>, version |-> 0]

\* Any collection of up to MaxReviews reviews is stored, the aggregates at
\* their defaults; the bookings behind the reviews play no part here.
InitRecount ==
  /\ \E n \in 0..MaxReviews : \E f \in [1..n -> ReviewChoices] :
       reviews = [k \in 1..n |-> StoredReview(k, f[k])]
  /\ bookings = <<>>
  /\ svc = [s \in DOMAIN ServiceDb |-> [totalBookings |-> 0, completedBookings |-> 0]]
  /\ notifications = EmptyBag
  /\ pc = [p \in Procs |-> "idle"]
  /\ req = [p \in Procs |-> NoReq]
  /\ ev = NoEvent
  /\ now = 0
  /\ ledger = <<>>
  /\ rsvps = <<>>
  /\ attendance = [e \in DOMAIN EventDb |-> [currentAttendees |-> 0, rsvpCount |-> 0]]
  /\ ratings = [service |-> [s \in DOMAIN ServiceDb |-> NoRating],
                vendor |-> [u \in Users |-> NoRating]]
  /\ xp = [u \in Users |-> 0]
  /\ reviewOps = 0

\* Review.updateServiceRating(serviceId), run on its own
RecountServiceRating ==
  /\ ev = NoEvent
  /\ \E s \in DOMAIN ServiceDb : ratings' = RatingsAfter(reviews, s)
  /\ UNCHANGED <<bookings, svc, notifications, pc, req, ev, now, ledger,
                 rsvpVars, reviews, xp, reviewOps>>

\* ------------------------------------------- a failing notification step
\* Notification.createNotification awaits this.create(data) and only the
\* socket emit after it is inside a try/catch: a failed emit changes
\* nothing, a rejected create rejects the handler's await, which comes
\* after the save, so the handler never reaches its res.json(success).
NotifyFails(p) ==
  /\ UNCHANGED notifications
  /\ ev' = Event(req[p].op, req[p].caller, req[p].id, req[p].event,
                 req[p].service, "ServerError")
  /\ pc' = [pc EXCEPT ![p] = "idle"]
  /\ req' = [req EXCEPT ![p] = NoReq]
  /\ UNCHANGED <<now, rsvpVars, reviewVars>>

\* The write stretch of a handler whose save succeeds and whose
\* notification is not created.
SaveNotifyFails(p, doc) ==
  LET r == req[p] IN
  /\ bookings' = [bookings EXCEPT ![r.id] = SaveDoc(@, r.snap, doc)]
  /\ svc' = PostSaveCounters(r.service, FALSE, r.snap, doc)
  /\ NotifyFails(p)

CreateBookingNotifyFails(p) ==
  /\ At(p, "createInsert")
  /\ LET r == req[p]
         doc == NewBooking(r.event, r.service, r.caller, r.price)
     IN  /\ bookings' = Append(bookings, doc)
         /\ ledger' = Append(ledger, 0)
         /\ svc' = PostSaveCounters(r.service, TRUE, doc, doc)
  /\ NotifyFails(p)

ConfirmBookingNotifyFails(p) ==
  /\ At(p, "confirmSave")
  /\ SaveNotifyFails(p, [req[p].snap EXCEPT !.status = "confirmed"])
  /\ UNCHANGED ledger

CancelBookingNotifyFails(p) ==
  /\ At(p, "cancelSave")
  /\ SaveNotifyFails(p, [req[p].snap EXCEPT !.status = "cancelled",
                                            !.cancellationReason = req[p].reason,
                                            !.cancelledBy = req[p].caller,
                                            !.cancelledAt = now])
  /\ UNCHANGED ledger

CompleteBookingNotifyFails(p) ==
  /\ At(p, "completeSave")
  /\ SaveNotifyFails(p, [req[p].snap EXCEPT !.status = "completed",
                                            !.completedAt = now])
  /\ UNCHANGED ledger

\* Both payment handlers: the save passed validation, the notification
\* was not created.
PaymentNotifyFails(p) ==
  /\ ValidBooking(WithPayment(req[p].snap, req[p].amount))
  /\ SaveNotifyFails(p, WithPayment(req[p].snap, req[p].amount))
  /\ ledger' = [ledger EXCEPT ![req[p].id] = @ + req[p].amount]

UpdatePaymentNotifyFails(p) ==
  /\ At(p, "updatePaymentSave")
  /\ PaymentNotifyFails(p)

RecordPaymentNotifyFails(p) ==
  /\ At(p, "recordPaymentSave")
  /\ PaymentNotifyFails(p)

\* res.json(...) or the error middleware: the response leaves the server.
SendResponse ==
  /\ ev # NoEvent
  /\ ev' = NoEvent
  /\ UNCHANGED <<bookings, svc, notifications, pc, req, now, ledger, rsvps,
                 attendance, reviewVars>>

\* ----------------------------------------------------- specifications
Step(p) ==
  \/ CreateBookingCheck(p)
  \/ CreateBookingInsert(p)
  \/ UpdateBookingLoad(p)
  \/ UpdateBookingWrite(p)
  \/ ConfirmBookingLoad(p)
  \/ ConfirmBookingSave(p)
  \/ CancelBookingLoad(p)
  \/ CancelBookingSave(p)
  \/ CompleteBookingLoad(p)
  \/ CompleteBookingSave(p)
  \/ UpdatePaymentLoad(p)
  \/ UpdatePaymentSave(p)
  \/ RecordPaymentLoad(p)
  \/ RecordPaymentSave(p)

\* One request at a time: slot 1 serves every request.
Next == Step(1) \/ SendResponse

Spec == Init /\ [][Next]_vars

\* Requests interleave at the awaits.
NextConc == (\E p \in Procs : Step(p)) \/ SendResponse

SpecConc == Init /\ [][NextConc]_vars

\* The RSVP handlers, one request at a time.
NextRSVP == CreateRSVP \/ UpdateRSVP \/ CancelRSVP \/ SendResponse

SpecRSVP == Init /\ [][NextRSVP]_vars

\* The booking handlers, one request at a time, with a Notification store
\* that can refuse a document.
NotifyFailStep(p) ==
  \/ CreateBookingNotifyFails(p)
  \/ ConfirmBookingNotifyFails(p)
  \/ CancelBookingNotifyFails(p)
  \/ CompleteBookingNotifyFails(p)
  \/ UpdatePaymentNotifyFails(p)
  \/ RecordPaymentNotifyFails(p)

NextNotify == Step(1) \/ NotifyFailStep(1) \/ SendResponse

SpecNotify == Init /\ [][NextNotify]_vars

\* createRSVP requests interleaving at their awaits.
UpsertStep(p) ==
  \/ CreateRSVPLoad(p)
  \/ CreateRSVPFind(p)
  \/ CreateRSVPWrite(p)
  \/ CreateRSVPCount(p)
  \/ CreateRSVPUpdate(p)

NextUpsert == (\E p \in Procs : UpsertStep(p)) \/ SendResponse

SpecUpsert == Init /\ [][NextUpsert]_vars

\* RSVPs and their check-in, one request at a time.
NextCheckIn == CreateRSVP \/ CheckInAttendee \/ CheckInByCode \/ SendResponse

SpecCheckIn == Init /\ [][NextCheckIn]_vars

\* The steps that take a booking through its lifecycle.
LifecycleStep(p) ==
  \/ CreateBookingCheck(p)
  \/ CreateBookingInsert(p)
  \/ ConfirmBookingLoad(p)
  \/ ConfirmBookingSave(p)
  \/ CancelBookingLoad(p)
  \/ CancelBookingSave(p)
  \/ CompleteBookingLoad(p)
  \/ CompleteBookingSave(p)

ReviewStep(p) ==
  \/ CreateReviewLoad(p)
  \/ CreateReviewFind(p)
  \/ CreateReviewInsert(p)
  \/ CreateReviewFinish(p)

\* Bookings and their reviews, one request at a time.
NextReview == LifecycleStep(1) \/ ReviewStep(1) \/ SendResponse

SpecReview == Init /\ [][NextReview]_vars

\* createReview requests interleaving at their awaits.
NextReviewConc ==
  LifecycleStep(1) \/ (\E p \in Procs : ReviewStep(p)) \/ SendResponse

SpecReviewConc == Init /\ [][NextReviewConc]_vars

\* Bookings, their reviews and the reviews' upkeep, one request at a time.
NextReviewAdmin ==
  \/ LifecycleStep(1)
  \/ ReviewStep(1)
  \/ UpdateReview(1)
  \/ DeleteReview(1)
  \/ ModerateReview(1)
  \/ SendResponse

SpecReviewAdmin == Init /\ [][NextReviewAdmin]_vars

\* Helpful votes on the reviews of completed bookings, the vote requests
\* interleaving at their awaits.
NextHelpful ==
  LifecycleStep(1) \/ ReviewStep(1) \/ (\E p \in Procs : HelpfulStep(p))
    \/ SendResponse

SpecHelpful == Init /\ [][NextHelpful]_vars

\* The updates of services and events, one request at a time.
NextUpdate == UpdateService(1) \/ UpdateEvent(1) \/ SendResponse

SpecUpdate == Init /\ [][NextUpdate]_vars

\* The recount run between moderations of reviews.
NextRecount == RecountServiceRating \/ ModerateReview(1) \/ SendResponse

SpecRecount == InitRecount /\ [][NextRecount]_vars

\* =============================================================== claims
TerminalStatuses == {"completed", "cancelled", "refunded"}

\* Exactly one notification was created in this step, and it is n.
Notified(n) == notifications' = notifications (+) SetToBag({n})

\* The response being sent answers a request `op` on an existing booking.
Answered(op) == ev.op = op /\ BookingExists(ev.id)

\* C1: in every reachable state, also when two Create requests interleave,
\* each (event, service) pair has at most one booking whose status is
\* neither cancelled nor refunded.
C1_AtMostOneActiveBooking ==
  \A i, j \in 1..Len(bookings) :
    ( /\ i # j
      /\ bookings[i].event = bookings[j].event
      /\ bookings[i].service = bookings[j].service
      /\ ActiveStatus(bookings[i].status) )
    => ~ActiveStatus(bookings[j].status)

\* C2: the stored total paid of every booking equals the sum of the amounts
\* of all payments recorded on it (by either handler) since it was created.
C2_TotalPaidIsSumOfPayments ==
  \A b \in 1..Len(bookings) : bookings[b].pricePaid = ledger[b]

\* The payment status the thresholds give.  Where they overlap (nothing
\* paid on a booking whose price is 0) both readings are accepted.
ThresholdStatuses(totalPaid, priceAgreed) ==
  (IF totalPaid = 0 THEN {"unpaid"} ELSE {})
    \cup (IF 0 < totalPaid /\ totalPaid < priceAgreed THEN {"partial"} ELSE {})
    \cup (IF totalPaid >= priceAgreed THEN {"paid"} ELSE {})

\* C3: in every reachable state the paymentStatus of every booking is the
\* one the thresholds give for its (total paid, priceAgreed): unpaid at 0,
\* partial strictly between 0 and priceAgreed, paid from priceAgreed on.
C3_PaymentStatusFollowsThresholds ==
  \A b \in 1..Len(bookings) :
    bookings[b].paymentStatus
      \in ThresholdStatuses(bookings[b].pricePaid, bookings[b].priceAgreed)

\* sum of (1 + guestsCount) over the going RSVPs of event e
RECURSIVE GoingHeads(_, _)
GoingHeads(rs, e) ==
  IF rs = <<>> THEN 0
  ELSE (IF Head(rs).event = e /\ Head(rs).status = "going"
          THEN 1 + Head(rs).guestsCount ELSE 0)
       + GoingHeads(Tail(rs), e)

\* C4: after every successful createRSVP on an event with maxAttendees set
\* (requests handled one at a time), the sum of (1 + guestsCount) over the
\* event's going RSVPs is at most maxAttendees.
C4_CapacityRespected ==
  ( /\ ev.op = "createRSVP"
    /\ ev.result = "ok"
    /\ EventDb[ev.event].maxAttendees # Unset )
  => GoingHeads(rsvps, ev.event) <= EventDb[ev.event].maxAttendees

\* C5: once a booking's status is completed, cancelled or refunded, no
\* step of any booking handler changes it (requests handled one at a time).
C5_TerminalStatusIsFinal ==
  [][\A b \in 1..Len(bookings) :
       bookings[b].status \in TerminalStatuses
         => bookings'[b].status = bookings[b].status]_vars

\* Cancel has just been refused on a completed booking.
C5_Witness ==
  /\ BookingExists(ev.id)
  /\ bookings[ev.id].status = "completed"
  /\ ev.op = "cancel"
  /\ ev.result = "InvalidState"

\* C6: a Confirm call succeeds exactly when the caller is the booking's
\* vendor and the status is pending; it then sets the status to confirmed,
\* changes nothing else of the booking and notifies the organizer.  Any
\* other caller gets Forbidden, the vendor on a booking that is not pending
\* gets InvalidState, and a failed call leaves bookings, notifications and
\* service counters as they were.
C6_ConfirmContract ==
  [][ev'.op = "confirm" =>
       IF BookingExists(ev'.id)
         THEN LET id == ev'.id
                  b == bookings[id]
                  allowed == ev'.caller = b.vendor /\ b.status = "pending"
              IN  /\ (ev'.result = "ok") <=> allowed
                  /\ allowed =>
                       /\ bookings' = [bookings EXCEPT ![id].status = "confirmed"]
                       /\ Notified(Notification(b.organizer, "booking",
                                                "Booking Confirmed", id))
                  /\ ev'.caller # b.vendor => ev'.result = "Forbidden"
                  /\ (ev'.caller = b.vendor /\ b.status # "pending")
                       => ev'.result = "InvalidState"
                  /\ ~allowed => UNCHANGED <<bookings, notifications, svc>>
         ELSE ev'.result = "NotFound" /\ UNCHANGED <<bookings, notifications, svc>>
  ]_vars

\* The vendor's Confirm has just succeeded.
C6_Witness ==
  /\ Answered("confirm")
  /\ ev.result = "ok"
  /\ ev.caller = bookings[ev.id].vendor
  /\ bookings[ev.id].status = "confirmed"

\* C7: a Complete call succeeds exactly when the caller is the booking's
\* organizer and the status is confirmed or in_progress; it then sets the
\* status to completed and sets completedAt.  Any other caller gets
\* Forbidden, the organizer on any other status gets InvalidState, and a
\* failed call leaves status, completedAt and the service's
\* completedBookings as they were.
C7_CompleteContract ==
  [][ev'.op = "complete" =>
       IF BookingExists(ev'.id)
         THEN LET id == ev'.id
                  b == bookings[id]
                  allowed == /\ ev'.caller = b.organizer
                             /\ b.status \in {"confirmed", "in_progress"}
              IN  /\ (ev'.result = "ok") <=> allowed
                  /\ allowed =>
                       /\ bookings'[id].status = "completed"
                       /\ bookings'[id].completedAt # NoTime
                       /\ b.completedAt = NoTime
                  /\ ev'.caller # b.organizer => ev'.result = "Forbidden"
                  /\ (ev'.caller = b.organizer /\ ~allowed)
                       => ev'.result = "InvalidState"
                  /\ ~allowed =>
                       /\ bookings'[id].status = b.status
                       /\ bookings'[id].completedAt = b.completedAt
                       /\ svc'[b.service].completedBookings
                            = svc[b.service].completedBookings
         ELSE ev'.result = "NotFound" /\ UNCHANGED <<bookings, svc>>
  ]_vars

\* The organizer's Complete has just succeeded.
C7_Witness ==
  /\ Answered("complete")
  /\ ev.result = "ok"
  /\ bookings[ev.id].status = "completed"
  /\ bookings[ev.id].completedAt # NoTime
  /\ svc[bookings[ev.id].service].completedBookings = 1

\* C8: Cancel by the organizer or the vendor fails InvalidState on a
\* completed booking and leaves it unchanged; on a pending, confirmed or
\* in_progress booking it sets status cancelled, cancelledBy = caller,
\* cancelledAt and the reason, and notifies the other party; a caller who
\* is neither organizer nor vendor gets Forbidden and changes nothing.
C8_CancelContract ==
  [][ev'.op = "cancel" /\ BookingExists(ev'.id) =>
       LET id == ev'.id
           b == bookings[id]
           caller == ev'.caller
           party == caller = b.organizer \/ caller = b.vendor
           other == IF caller = b.organizer THEN b.vendor ELSE b.organizer
       IN  /\ ~party =>
                /\ ev'.result = "Forbidden"
                /\ UNCHANGED <<bookings, notifications, svc>>
           /\ (party /\ b.status = "completed") =>
                /\ ev'.result = "InvalidState"
                /\ UNCHANGED <<bookings, notifications, svc>>
           /\ (party /\ b.status \in {"pending", "confirmed", "in_progress"}) =>
                /\ ev'.result = "ok"
                /\ bookings'[id].status = "cancelled"
                /\ bookings'[id].cancelledBy = caller
                /\ bookings'[id].cancelledAt = now
                /\ bookings'[id].cancellationReason = req[1].reason
                /\ Notified(Notification(other, "booking",
                                         "Booking Cancelled", id))
  ]_vars

\* The vendor has just cancelled a booking; the organizer was notified.
C8_Witness ==
  /\ Answered("cancel")
  /\ ev.result = "ok"
  /\ bookings[ev.id].status = "cancelled"
  /\ bookings[ev.id].cancelledBy = bookings[ev.id].vendor
  /\ bookings[ev.id].vendor # bookings[ev.id].organizer
  /\ BagIn(Notification(bookings[ev.id].organizer, "booking",
                         "Booking Cancelled", ev.id), notifications)

\* C9: every Confirm, Cancel or Complete call that reports success has
\* changed the booking's status, and a call that reports an error has
\* changed nothing; so the cancellation metadata of a cancelled booking
\* stays what the first cancellation recorded.
C9_NoSilentNoOp ==
  [][(ev'.op \in {"confirm", "cancel", "complete"} /\ BookingExists(ev'.id)) =>
       /\ ev'.result = "ok" => bookings'[ev'.id].status # bookings[ev'.id].status
       /\ ev'.result # "ok" => UNCHANGED <<bookings, notifications, svc>>
       /\ bookings[ev'.id].status = "cancelled" =>
            /\ bookings'[ev'.id].cancelledBy = bookings[ev'.id].cancelledBy
            /\ bookings'[ev'.id].cancelledAt = bookings[ev'.id].cancelledAt
            /\ bookings'[ev'.id].cancellationReason
                 = bookings[ev'.id].cancellationReason
  ]_vars

\* C10: a Create for an (event, service) pair that has a booking whose
\* status is neither cancelled nor refunded fails, with Conflict when the
\* caller passes the guards that come first (the caller is the event's
\* organizer), and adds no booking, leaves Service.totalBookings as it was
\* and creates no notification.
C10_DuplicateCreateConflicts ==
  [][(ev'.op = "create" /\ ExistingBooking(ev'.event, ev'.service)) =>
       /\ ev'.result # "ok"
       /\ ev'.caller = EventDb[ev'.event].organizer => ev'.result = "Conflict"
       /\ UNCHANGED <<bookings, svc, notifications>>
  ]_vars

\* The organizer's second Create for a booked pair was answered Conflict.
C10_Witness ==
  /\ ev.op = "create"
  /\ ev.result = "Conflict"
  /\ ExistingBooking(ev.event, ev.service)
  /\ ev.caller = EventDb[ev.event].organizer

\* C11: a Create call succeeds only when the event and the service exist,
\* the caller is the event's organizer and the service's availability is
\* not not_taking_orders; the booking it adds is pending with organizer =
\* caller and vendor = the service's provider, and the vendor is notified.
\* A Create naming a missing event or service gets NotFound, one by a
\* caller who is not the organizer gets Forbidden, and neither adds a
\* booking.
C11_CreateContract ==
  [][ev'.op = "create" =>
       LET e == ev'.event
           s == ev'.service
           caller == ev'.caller
           found == e \in DOMAIN EventDb /\ s \in DOMAIN ServiceDb
       IN  /\ ev'.result = "ok" =>
                /\ found
                /\ EventDb[e].organizer = caller
                /\ ServiceDb[s].availability # "not_taking_orders"
                /\ Len(bookings') = Len(bookings) + 1
                /\ SubSeq(bookings', 1, Len(bookings)) = bookings
                /\ ev'.id = Len(bookings')
                /\ bookings'[ev'.id].event = e
                /\ bookings'[ev'.id].service = s
                /\ bookings'[ev'.id].status = "pending"
                /\ bookings'[ev'.id].organizer = caller
                /\ bookings'[ev'.id].vendor = ServiceDb[s].provider
                /\ Notified(Notification(ServiceDb[s].provider, "booking",
                                         "New Booking Request", ev'.id))
           /\ ~found =>
                /\ ev'.result = "NotFound"
                /\ UNCHANGED <<bookings, notifications, svc>>
           /\ (found /\ EventDb[e].organizer # caller) =>
                /\ ev'.result = "Forbidden"
                /\ UNCHANGED <<bookings, notifications, svc>>
  ]_vars

\* The organizer's Create has just added a pending booking and the vendor
\* has its notification.
C11_Witness ==
  /\ Answered("create")
  /\ ev.result = "ok"
  /\ ev.id = Len(bookings)
  /\ bookings[ev.id].status = "pending"
  /\ bookings[ev.id].organizer = ev.caller
  /\ BagIn(Notification(bookings[ev.id].vendor, "booking",
                        "New Booking Request", ev.id), notifications)

\* The status changes the booking handlers make to a stored booking:
\* confirmBooking pending -> confirmed, cancelBooking anything but completed
\* -> cancelled, completeBooking confirmed or in_progress -> completed.  No
\* other handler assigns booking.status.
StatusMoves ==
  {<<"pending", "confirmed">>}
    \cup {<<st, "cancelled">> : st \in BookingStatuses \ {"completed"}}
    \cup {<<st, "completed">> : st \in {"confirmed", "in_progress"}}

\* With requests handled one at a time, every status change a step makes
\* is one of StatusMoves.
StatusMovesCoverHandlers ==
  [][\A b \in 1..Len(bookings) :
       bookings'[b].status # bookings[b].status
         => <<bookings[b].status, bookings'[b].status>> \in StatusMoves]_vars

\* The statuses some sequence of StatusMoves leads to from the statuses S.
RECURSIVE StatusClosure(_)
StatusClosure(S) ==
  LET T == S \cup {m[2] : m \in {n \in StatusMoves : n[1] \in S}}
  IN  IF T = S THEN S ELSE StatusClosure(T)

StatusesReachableFrom(st) == StatusClosure({st})

\* C12: the lifecycle reaches every declared status: from a confirmed
\* booking some sequence of booking operations leads to in_progress, and
\* from a pending, confirmed or in_progress booking some sequence leads to
\* refunded.
C12_EveryDeclaredStatusReachable ==
  \A b \in 1..Len(bookings) :
    /\ bookings[b].status = "confirmed"
         => "in_progress" \in StatusesReachableFrom(bookings[b].status)
    /\ bookings[b].status \in {"pending", "confirmed", "in_progress"}
         => "refunded" \in StatusesReachableFrom(bookings[b].status)

\* No stored booking ever has status in_progress or refunded, however the
\* requests interleave.
NeverInProgressOrRefunded ==
  \A b \in 1..Len(bookings) :
    bookings[b].status \notin {"in_progress", "refunded"}

\* C13: a payment call with amount <= 0 is rejected by updatePayment (the
\* organizer's path) and by recordPayment (the vendor's path) alike: a call
\* answered with success carried an amount > 0, and a rejected call leaves
\* the bookings and the payment history as they were and creates no
\* notification.
C13_NonPositiveAmountRejected ==
  [][ev'.op \in {"updatePayment", "recordPayment"} =>
       /\ ev'.result = "ok" => req[1].amount > 0
       /\ ev'.result # "ok" => UNCHANGED <<bookings, notifications, ledger>>
  ]_vars

\* C14: a booking mutation that has been committed is reported as
\* successful whether or not its notification could be created: the step
\* in which Create, Confirm, Cancel, Complete or a payment call writes the
\* booking and answers, answers with success.
C14_NotificationFailureNotSurfaced ==
  [][( /\ ev'.op \in {"create", "confirm", "cancel", "complete",
                      "updatePayment", "recordPayment"}
       /\ bookings' # bookings )
       => ev'.result = "ok"
  ]_vars

\* The attendee total of the RSVP that attendee a has for event e, 0 when
\* there is none.
PreviousTotal(e, a) ==
  IF FindRsvp(e, a) = 0 THEN 0
  ELSE RsvpTotal(rsvps[FindRsvp(e, a)].status, rsvps[FindRsvp(e, a)].guestsCount)

\* C15: an RSVP request is refused with CapacityExceeded only when it
\* raises the attendee's own total: with total = 1 + guestsCount for going
\* and 0 otherwise and delta = new total - previous total, only when
\* delta > 0 and currentAttendees + delta > maxAttendees.  So a maybe or
\* not_going request, or a going one that does not raise the total, is
\* never refused for capacity.
C15_CapacityRefusalOnlyOnIncrease ==
  ( /\ ev.op \in {"createRSVP", "updateRSVP"}
    /\ ev.result = "CapacityExceeded" )
  => LET e == IF ev.op = "createRSVP" THEN ev.event ELSE rsvps[ev.id].event
         delta == RsvpTotal(ev.status, ev.guestsCount)
                    - PreviousTotal(e, ev.caller)
     IN  /\ delta > 0
         /\ EventDb[e].maxAttendees # Unset
         /\ attendance[e].currentAttendees + delta > EventDb[e].maxAttendees

\* C16: after every successful RSVP create, update or cancel (requests
\* handled one at a time) the event's currentAttendees and rsvpCount are
\* equal, and both are the number of the event's RSVPs with status going.
C16_CountersMatchGoingRsvps ==
  ( /\ ev.op \in {"createRSVP", "updateRSVP", "cancelRSVP"}
    /\ ev.result = "ok" )
  => /\ attendance[ev.event].currentAttendees = attendance[ev.event].rsvpCount
     /\ attendance[ev.event].rsvpCount = GoingCount(rsvps, ev.event)

C18_CheckInOnlyOnce ==
  [][( /\ ev'.op \in {"checkIn", "checkInByCode"}
       /\ ev'.id \in 1..Len(rsvps) )
       => LET id == ev'.id
              e == rsvps[id].event
          IN  /\ ev'.result = "ok" => IsAuthorized(e, ev'.caller)
              /\ rsvps[id].checkedIn =>
                   /\ rsvps'[id].checkedInAt = rsvps[id].checkedInAt
                   /\ IsAuthorized(e, ev'.caller)
                        => ev'.result = "AlreadyCheckedIn"
  ]_vars


\* C19: With requests handled one at a time, Create Review succeeds only
\* when the booking exists, its status is completed, the caller is the
\* booking's organizer and the booking has no review yet: a review is
\* inserted only in such a state, and the ratings, the XP and the review
\* notifications change only in the step that answers "ok".  Every other
\* Create Review is answered NotFound (no such booking), Forbidden (caller
\* is not the organizer), InvalidState (booking not completed) or Conflict
\* (booking already reviewed), and adds no review, changes no rating,
\* awards no XP and adds no notification.
C19_ReviewContract ==
  [][/\ reviews' # reviews =>
          \E p \in Procs :
            /\ pc[p] = "reviewCreate"
            /\ BookingExists(req[p].id)
            /\ bookings[req[p].id].status = "completed"
            /\ bookings[req[p].id].organizer = req[p].caller
            /\ FindReview(req[p].id) = 0
            /\ Len(reviews') = Len(reviews) + 1
            /\ SubSeq(reviews', 1, Len(reviews)) = reviews
            /\ reviews'[Len(reviews')].booking = req[p].id
            /\ reviews'[Len(reviews')].reviewer = req[p].caller
     /\ (ratings' # ratings \/ xp' # xp) =>
          (ev'.op = "createReview" /\ ev'.result = "ok")
     /\ ev'.op = "createReview" =>
          LET id == ev'.id
              caller == ev'.caller
          IN  /\ ev'.result \in {"ok", "NotFound", "Forbidden", "InvalidState",
                                 "Conflict"}
              /\ ev'.result = "ok" =>
                   /\ BookingExists(id)
                   /\ bookings[id].status = "completed"
                   /\ bookings[id].organizer = caller
                   /\ Len(SelectSeq(reviews, LAMBDA r : r.booking = id)) = 1
                   /\ reviews[FindReview(id)].reviewer = caller
                   /\ xp' = [xp EXCEPT ![caller] = @ + 10]
                   /\ notifications' =
                        Notify(bookings[id].vendor, "review", "New Review", id)
                   /\ UNCHANGED reviews
              /\ ev'.result = "NotFound" => ~BookingExists(id)
              /\ ev'.result = "Forbidden" =>
                   (BookingExists(id) /\ bookings[id].organizer # caller)
              /\ ev'.result = "InvalidState" =>
                   (BookingExists(id) /\ bookings[id].status # "completed")
              /\ ev'.result = "Conflict" => FindReview(id) # 0
              /\ ev'.result # "ok" =>
                   UNCHANGED <<reviews, ratings, xp, notifications>>
  ]_vars

\* The organizer's review of a completed booking has just been answered
\* "ok": the review is stored, the service is rated and the XP is awarded.
C19_Witness ==
  /\ ev.op = "createReview"
  /\ ev.result = "ok"
  /\ FindReview(ev.id) # 0
  /\ ratings.service[ev.service].totalRatings = 1
  /\ xp[ev.caller] = 10

\* A second Create Review for a reviewed booking has just been refused.
C19_ConflictWitness ==
  /\ ev.op = "createReview"
  /\ ev.result = "Conflict"
  /\ FindReview(ev.id) # 0


\* C20: In every reachable state each booking has at most one review, also
\* when two Create Review requests for one booking interleave and both pass
\* the existing-review check before either inserts.
C20_OneReviewPerBooking ==
  \A i, j \in 1..Len(reviews) :
    reviews[i].booking = reviews[j].booking => i = j

\* Two Create Review requests for one booking both passed the
\* existing-review check; the first inserted its review and the insert of
\* the second has just been refused by the unique index.
C20_Witness ==
  /\ ev.op = "createReview"
  /\ ev.result = "DuplicateKey"
  /\ Len(SelectSeq(reviews, LAMBDA r : r.booking = ev.id)) = 1


\* C21: After every Create Review, Update Review or Delete Review that
\* succeeded, the service's totalRatings is the number of approved reviews
\* of the service and its ratingAverage is their mean rating rounded to one
\* decimal (0 when there are none).
C21_RatingsRecomputedWithWrite ==
  [][(ev'.op \in {"createReview", "updateReview", "deleteReview"}
        /\ ev'.result = "ok") =>
       ratings'.service[ev'.service] =
         RatingStats(reviews', {ev'.service}, NoRating)
  ]_vars


\* C22: After every Moderate that succeeded, the stored aggregates of the
\* review's service and of its vendor are the ones computed over the
\* reviews with isApproved = true: a rejected review no longer counts, and
\* a review approved again counts again.
C22_ModerationFeedsAggregates ==
  [][(ev'.op = "moderateReview" /\ ev'.result = "ok") =>
       LET s == ev'.service
           provider == ServiceDb[s].provider
           own == {t \in DOMAIN ServiceDb : ServiceDb[t].provider = provider}
       IN  /\ ratings'.service[s] = RatingStats(reviews', {s}, NoRating)
           /\ ratings'.vendor[provider] = RatingStats(reviews', own, NoRating)
  ]_vars


\* C23: In every reachable state a review's helpfulCount is the number of
\* users in its helpfulVoters and no user is in helpfulVoters twice, for
\* any interleaving of mark-helpful and remove-helpful calls.
C23_HelpfulCountMirrorsVoters ==
  \A i \in 1..Len(reviews) :
    /\ reviews[i].helpfulCount = Len(reviews[i].helpfulVoters)
    /\ \A k, m \in 1..Len(reviews[i].helpfulVoters) :
         reviews[i].helpfulVoters[k] = reviews[i].helpfulVoters[m] => k = m


\* C24: No Service update changes the service's ratingAverage,
\* totalRatings, totalBookings or completedBookings, and no Event update
\* changes the event's currentAttendees or rsvpCount, whatever the request
\* body contains.
C24_AggregatesNotClientSettable ==
  [][/\ ev'.op = "updateService" => UNCHANGED <<svc, ratings>>
     /\ ev'.op = "updateEvent" => UNCHANGED attendance
  ]_vars


C26_CountersSettleAfterConcurrency ==
  (\A p \in Procs : pc[p] = "idle") =>
    \A e \in DOMAIN EventDb :
      /\ attendance[e].currentAttendees = GoingCount(rsvps, e)
      /\ attendance[e].rsvpCount = GoingCount(rsvps, e)


\* C27: RecountServiceRating is idempotent: in every state, for every
\* service, running the recount a second time with the reviews unchanged
\* leaves the service's and the vendor's ratingAverage and totalRatings as
\* the first run left them.
C27_RecountIdempotent ==
  \A s \in DOMAIN ServiceDb :
    LET once == RecountedRatings(ratings, reviews, s)
    IN  RecountedRatings(once, reviews, s) = once

\* The recount has run over two approved reviews of one service, rated 1
\* and 5: the service and the vendor have 2 ratings averaging 3.0.
C27_Witness ==
  /\ Len(reviews) = 2
  /\ ratings.service["s1"] = [ratingAverage |-> 30, totalRatings |-> 2]
  /\ ratings.vendor["v"] = [ratingAverage |-> 30, totalRatings |-> 2]
  /\ ratings = RecountedRatings(ratings, reviews, "s1")


\* C28: After the vendor recount has run (as the last step of the service
\* recount), the vendor's totalRatings is the number of approved reviews
\* over all the vendor's services and ratingAverage is their mean; when
\* the vendor has no approved review, both are 0.
C28_VendorRecount ==
  \A s \in DOMAIN ServiceDb :
    LET provider == ServiceDb[s].provider
        own == {t \in DOMAIN ServiceDb : ServiceDb[t].provider = provider}
        after == RecountedRatings(ratings, reviews, s)
    IN  after.vendor[provider] = RatingStats(reviews, own, NoRating)


\* C29: In every reachable state, also when a Cancel and a Complete on one
\* confirmed booking interleave, a booking carries cancelledAt or
\* cancelledBy only if its status is cancelled, and completedAt only if
\* its status is completed.
C29_MetadataMatchesStatus ==
  \A i \in 1..Len(bookings) :
    /\ (bookings[i].cancelledAt # NoTime \/ bookings[i].cancelledBy # None)
         => bookings[i].status = "cancelled"
    /\ bookings[i].completedAt # NoTime => bookings[i].status = "completed"


\* C30: A booking's paymentStatus never moves backwards: once partial it
\* never returns to unpaid, and once paid it never returns to partial or
\* unpaid, over any sequence of payment calls.
C30_PaymentStatusMonotone ==
  [][\A i \in 1..Len(bookings) :
       /\ bookings[i].paymentStatus = "partial"
            => bookings'[i].paymentStatus # "unpaid"
       /\ bookings[i].paymentStatus = "paid"
            => bookings'[i].paymentStatus \notin {"partial", "unpaid"}
  ]_vars

====
